---- MODULE Spec2Model ----
(***************************************************************************)
(* Model of fastmri_examples/adaptive_varnet/eval_pretrained_adaptive_    *)
(* varnet.py: checkpoint loading with its fallback (cli_main, lines       *)
(* 95-106), the evaluation loop with its metric and probability-mask      *)
(* accumulators (lines 112-166), and the finalization that builds and     *)
(* prints the report (lines 168-198), with entropy() (lines 29-33).       *)
(*                                                                         *)
(* Numbers.  A probability is an integer k standing for k/Denom; a mean   *)
(* is the exact fraction [num, den]; an entropy is a formal sum of terms  *)
(* H(a/b), one per probability strictly between 0 and 1, over a common    *)
(* denominator, with a flag for NaN (0 * log 0 is NaN in IEEE arithmetic).*)
(* A mask row has two frequency lines where the code has 128.             *)
(***************************************************************************)
EXTENDS Integers, Sequences, FiniteSets, TLC

\* ---------------------------------------------------------------- bounds
MaxBatches == 2
MaxBatchSize == 2
Denom == 2

\* model.budget, the number of lines the policy may sample (line 162)
budget == 1

VARIABLES pc, error, model, attempts, num_batches, data_loader, i,
          all_ssims, all_psnrs, all_nmses, all_prob_masks, stdout, seen

vars == <<pc, error, model, attempts, num_batches, data_loader, i,
          all_ssims, all_psnrs, all_nmses, all_prob_masks, stdout, seen>>

\* ------------------------------------------------------------ sequences
RECURSIVE SumSeq(_)
SumSeq(s) == IF s = <<>> THEN 0 ELSE Head(s) + SumSeq(Tail(s))

\* torch.cat(tensors, dim=0): the rows of every tensor, in order
RECURSIVE Cat(_)
Cat(ts) == IF ts = <<>> THEN <<>> ELSE Head(ts) \o Cat(Tail(ts))

\* tensor.mean() / ndarray.mean() over all elements, as an exact fraction
Mean(s) == [num |-> SumSeq(s), den |-> Len(s)]

Abs(x) == IF x < 0 THEN -x ELSE x

\* np.isclose(a, b) with numpy's defaults rtol = 1e-5, atol = 1e-8:
\* |a - b| <= atol + rtol * |b|, a and b given in units of 1/Denom
IsClose(a, b) == 100000000 * Abs(a - b) <= Denom + 1000 * Abs(b)

\* -------------------------------------------------------------- entropy
RECURSIVE GCD(_, _)
GCD(a, b) == IF b = 0 THEN a ELSE GCD(b, a % b)

\* the probability n/d in lowest terms
Reduce(p) == <<p[1] \div GCD(p[1], p[2]), p[2] \div GCD(p[1], p[2])>>

NoTerms == [a \in {} |-> 0]
Zero == [nan |-> FALSE, terms |-> NoTerms, den |-> 1]
NaN == [nan |-> TRUE, terms |-> NoTerms, den |-> 1]
Coef(x, a) == IF a \in DOMAIN x.terms THEN x.terms[a] ELSE 0

\* x + y
Add(x, y) ==
    IF x.nan \/ y.nan THEN NaN
    ELSE [nan |-> FALSE,
          terms |-> [a \in {c \in DOMAIN x.terms \cup DOMAIN y.terms :
                              Coef(x, c) * y.den + Coef(y, c) * x.den # 0}
                       |-> Coef(x, a) * y.den + Coef(y, a) * x.den],
          den |-> x.den * y.den]

\* x - y
Sub(x, y) ==
    IF x.nan \/ y.nan THEN NaN
    ELSE [nan |-> FALSE,
          terms |-> [a \in {c \in DOMAIN x.terms \cup DOMAIN y.terms :
                              Coef(x, c) * y.den - Coef(y, c) * x.den # 0}
                       |-> Coef(x, a) * y.den - Coef(y, a) * x.den],
          den |-> x.den * y.den]

\* x / n
Div(x, n) == IF x.nan THEN NaN ELSE [x EXCEPT !.den = x.den * n]

\* IEEE equality of two scalars: NaN equals nothing
ValEq(x, y) ==
    /\ ~x.nan
    /\ ~y.nan
    /\ \A a \in DOMAIN x.terms \cup DOMAIN y.terms :
          Coef(x, a) * y.den = Coef(y, a) * x.den

RECURSIVE SumVals(_)
SumVals(s) == IF s = <<>> THEN Zero ELSE Add(Head(s), SumVals(Tail(s)))

\* line 30 for one element p = <<n, d>>: -(p log p + (1-p) log(1-p));
\* at p = 0 and p = 1 one product is 0 * -inf, which is NaN
RawEntropy(p) ==
    IF p[1] = 0 \/ p[1] = p[2]
    THEN NaN
    ELSE [nan |-> FALSE, terms |-> [a \in {Reduce(p)} |-> 1], den |-> 1]

\* Variant: the override at 1 is missing
Override_ZeroOnly(p, ent) == IF p[1] = 0 THEN Zero ELSE ent

\* lines 31-32 for one element: ent[prob_mask == 0] = 0; ent[prob_mask == 1] = 0
Override(p, ent) == IF p[1] = 0 THEN Zero ELSE IF p[1] = p[2] THEN Zero ELSE ent

\* entropy(prob_mask), elementwise over a 2-D tensor of probabilities
entropy(prob_mask) ==
    [n \in DOMAIN prob_mask |->
        [l \in DOMAIN prob_mask[n] |->
            Override(prob_mask[n][l], RawEntropy(prob_mask[n][l]))]]

\* tensor.sum(dim=1) of a 2-D tensor of scalars
SumDim1(t) == [n \in DOMAIN t |-> SumVals(t[n])]

\* tensor.mean() of a 1-D tensor of scalars
MeanVals(s) == Div(SumVals(s), Len(s))

\* prob_mask_tensor = torch.cat(all_prob_masks, dim=0).double()
ProbMaskTensor(masks) ==
    LET rows == Cat(masks)
    IN  [n \in DOMAIN rows |-> [l \in DOMAIN rows[n] |-> <<rows[n][l], Denom>>]]

\* marg_prob = prob_mask_tensor.mean(dim=0, keepdim=True): one row
MargProb(t) ==
    << [l \in DOMAIN t[1] |->
          <<SumSeq([n \in DOMAIN t |-> t[n][l][1]]), Len(t) * Denom>>] >>

marg_entropy(t) == SumDim1(entropy(MargProb(t)))[1]
avg_cond_entropy(t) == MeanVals(SumDim1(entropy(t)))
mut_inf(marg, cond) == Sub(marg, cond)

\* ------------------------------------------------------------- inputs
\* What one image contributes: its similarity score (the per-sample value of
\* 1 - SSIMLoss(..., reduced=False), lines 132-140), evaluate.psnr (line 147)
\* and evaluate.nmse (line 148)
Images ==
    { [ssim |-> 0, psnr |-> 1, nmse |-> 2],
      [ssim |-> 1, psnr |-> 3, nmse |-> 0] }
OneImage == { [ssim |-> 1, psnr |-> 3, nmse |-> 0] }

\* Rows of a probability mask: three that sum to the budget (two of them
\* binary, one fractional) and one that does not
ValidRow == <<Denom * budget, 0>>
MaskRows == { ValidRow, <<0, Denom * budget>>, <<1, Denom * budget - 1>>,
              <<Denom, Denom>> }
OneRow == { ValidRow }

\* args.num_batches (lines 231-235): None, or <<c>> for the integer c
None == <<>>
Caps == {None} \cup { <<c>> : c \in -1 .. MaxBatches }

\* The b-row mask tensors of a policy: a first row, and the other rows alike
Tensors(b, Rows) ==
    { [n \in 1 .. b |-> IF n = 1 THEN r1 ELSE r2] : r1 \in Rows, r2 \in Rows }

\* extra_outputs of one model call (line 124) on a batch of b images: no
\* "prob_masks" key (the only case for VarNetModule, line 152), or a list of
\* zero, one or two b-row tensors
NoMasks == [has |-> FALSE, prob_masks |-> <<>>]
ExtraOutputs(m, b, Rows) ==
    IF m = "VarNetModule"
    THEN {NoMasks}
    ELSE {NoMasks}
         \cup { [has |-> TRUE, prob_masks |-> pm] :
                  pm \in {<<>>, <<[n \in 1 .. b |-> ValidRow],
                                  [n \in 1 .. b |-> ValidRow]>>} }
         \cup { [has |-> TRUE, prob_masks |-> <<t>>] : t \in Tensors(b, Rows) }

\* load_model (lines 36-52): it returns the module, or load_state_dict raises
\* RuntimeError because the keys do not match the class (lines 46-50), or
\* something else fails (torch.load, the constructor)
load_model == {"ok", "RuntimeError", "OtherError"}

\* Variant: the handler catches another exception type
Caught_Other(o) == o = "OtherError"

\* except RuntimeError (line 100)
Caught(o) == o = "RuntimeError"

\* ----------------------------------------------------------------- Init
Init ==
    /\ pc = "load"
    /\ error = "none"
    /\ model = "none"
    /\ attempts = <<>>
    /\ num_batches \in Caps
    /\ data_loader \in 0 .. MaxBatches
    /\ i = 0
    /\ all_ssims = <<>>
    /\ all_psnrs = <<>>
    /\ all_nmses = <<>>
    /\ all_prob_masks = <<>>
    /\ stdout = <<>>
    /\ seen = <<>>

Say(src, val) == [src |-> src, val |-> val]

\* ------------------------------------------------- lines 95-113: loading
Try(cls, o) == [cls |-> cls, outcome |-> o]

LoadModel ==
    /\ pc = "load"
    /\ \E o1 \in load_model, o2 \in load_model :
          /\ IF o1 = "ok"
             THEN /\ attempts' = <<Try("AdaptiveVarNetModule", o1)>>
                  /\ model' = "AdaptiveVarNetModule"
                  /\ pc' = "loop"
                  /\ error' = error
                  /\ stdout' = stdout \o <<Say(97, "try"), Say(40, "loading"),
                                           Say(99, "success")>>
             ELSE IF Caught(o1)
             THEN /\ attempts' = <<Try("AdaptiveVarNetModule", o1),
                                   Try("VarNetModule", o2)>>
                  /\ model' = IF o2 = "ok" THEN "VarNetModule" ELSE model
                  /\ pc' = IF o2 = "ok" THEN "loop" ELSE "failed"
                  /\ error' = IF o2 = "ok" THEN error ELSE o2
                  /\ stdout' = stdout
                       \o <<Say(97, "try"), Say(40, "loading"),
                            Say(102, "failed"), Say(40, "loading")>>
                       \o (IF o2 = "ok" THEN <<Say(106, "success")>> ELSE <<>>)
             ELSE /\ attempts' = <<Try("AdaptiveVarNetModule", o1)>>
                  /\ model' = model
                  /\ pc' = "failed"
                  /\ error' = o1
                  /\ stdout' = stdout \o <<Say(97, "try"), Say(40, "loading")>>
    /\ all_prob_masks' = <<>>
    /\ all_ssims' = <<>>
    /\ all_psnrs' = <<>>
    /\ all_nmses' = <<>>
    /\ UNCHANGED <<num_batches, data_loader, i, seen>>

\* ------------------------------------- lines 120-166: one loop iteration
\* Variant: the assertion only asks for a non-empty list
OnePolicy_NonEmpty(prob_masks_list) == Len(prob_masks_list) >= 1

\* assert len(prob_masks_list) == 1 (lines 156-158)
OnePolicy(prob_masks_list) == Len(prob_masks_list) = 1

\* Variant: only the first row of the batch is kept
BatchProbMasks_FirstRow(prob_masks_list) == <<prob_masks_list[1][1]>>

\* batch_prob_masks = prob_masks_list[0][:, 0, 0, :, 0] (lines 159-161)
BatchProbMasks(prob_masks_list) == prob_masks_list[1]

\* assert np.isclose(batch_prob_masks[0].sum(), model.budget) (line 162)
BudgetCheck(batch_prob_masks) ==
    IsClose(SumSeq(batch_prob_masks[1]), Denom * budget)

\* Variants: one value per batch, the first image's
SsimOf_FirstOnly(imgs) == <<imgs[1].ssim>>
PsnrOf_FirstOnly(imgs) == <<imgs[1].psnr>>

\* the per-image values appended for a batch (lines 141 and 146-150)
SsimOf(imgs) == [k \in DOMAIN imgs |-> imgs[k].ssim]
PsnrOf(imgs) == [k \in DOMAIN imgs |-> imgs[k].psnr]
NmseOf(imgs) == [k \in DOMAIN imgs |-> imgs[k].nmse]

\* Variant: the break comes one iteration late
LoopEnds_Late == i >= data_loader \/ num_batches = <<i - 1>>

\* if i == args.num_batches: break (lines 121-122), or the loader is exhausted
LoopEnds == i >= data_loader \/ num_batches = <<i>>

EvalStep(Imgs, Rows) ==
    /\ pc = "loop"
    /\ ~LoopEnds
    /\ \E b \in 1 .. MaxBatchSize :
       \E imgs \in [1 .. b -> Imgs], extra \in ExtraOutputs(model, b, Rows) :
          /\ seen' = Append(seen, [imgs |-> imgs, extra |-> extra])
          /\ all_ssims' = Append(all_ssims, SsimOf(imgs))
          /\ all_psnrs' = all_psnrs \o PsnrOf(imgs)
          /\ all_nmses' = all_nmses \o NmseOf(imgs)
          /\ IF ~extra.has
             THEN /\ all_prob_masks' = all_prob_masks
                  /\ pc' = pc
                  /\ error' = error
             ELSE IF ~OnePolicy(extra.prob_masks)
             THEN /\ all_prob_masks' = all_prob_masks
                  /\ pc' = "failed"
                  /\ error' = "MultiplePolicies"
             ELSE IF ~BudgetCheck(BatchProbMasks(extra.prob_masks))
             THEN /\ all_prob_masks' = all_prob_masks
                  /\ pc' = "failed"
                  /\ error' = "BudgetMismatch"
             ELSE /\ all_prob_masks' =
                        Append(all_prob_masks, BatchProbMasks(extra.prob_masks))
                  /\ pc' = pc
                  /\ error' = error
    /\ i' = i + 1
    /\ UNCHANGED <<model, attempts, num_batches, data_loader, stdout>>

\* ------------------------------------------ lines 168-198: finalization
\* Variant: a single collected tensor does not count
HasMasks_Several(masks) == Len(masks) > 1

\* if all_prob_masks: (line 178)
HasMasks(masks) == masks # <<>>

\* return_dict (lines 173-177)
BaseReport ==
    [k \in {"ssim", "psnr", "nmse"} |->
        CASE k = "ssim" -> Mean(Cat(all_ssims))
          [] k = "psnr" -> Mean(all_psnrs)
          [] k = "nmse" -> Mean(all_nmses)]

\* return_dict.update(...) (lines 191-197)
EntropyReport(t) ==
    LET marg == marg_entropy(t)
        cond == avg_cond_entropy(t)
    IN  [k \in {"cond_ent_ind", "marg_ent_ind", "mi_ind"} |->
            CASE k = "cond_ent_ind" -> cond
              [] k = "marg_ent_ind" -> marg
              [] k = "mi_ind" -> mut_inf(marg, cond)]

return_dict ==
    IF HasMasks(all_prob_masks)
    THEN BaseReport @@ EntropyReport(ProbMaskTensor(all_prob_masks))
    ELSE BaseReport

\* np.concatenate(np.array(all_psnrs)[:, None], axis=0) (line 169) raises
\* ValueError when there is no array to concatenate
Finalize ==
    /\ pc = "loop"
    /\ LoopEnds
    /\ IF all_psnrs = <<>>
       THEN /\ pc' = "failed"
            /\ error' = "ValueError"
            /\ stdout' = stdout
       ELSE /\ pc' = "done"
            /\ error' = error
            /\ stdout' = stdout
                 \o (IF HasMasks(all_prob_masks)
                     THEN <<Say(182, <<Len(Cat(all_prob_masks)),
                                       Len(Cat(all_prob_masks)[1])>>)>>
                     ELSE <<>>)
                 \o <<Say(198, return_dict)>>
    /\ UNCHANGED <<model, attempts, num_batches, data_loader, i, all_ssims,
                   all_psnrs, all_nmses, all_prob_masks, seen>>

\* --------------------------------------------------------- specifications
\* Spec: every image alike, the policy's mask rows vary
Next == LoadModel \/ EvalStep(OneImage, MaskRows) \/ Finalize
Spec == Init /\ [][Next]_vars

\* SpecMetrics: the images vary, the policy emits one row
NextMetrics == LoadModel \/ EvalStep(Images, OneRow) \/ Finalize
SpecMetrics == Init /\ [][NextMetrics]_vars

\* ------------------------------------------------------ reading a run
\* The reports printed so far (line 198) and the mask counts (line 182)
IsReport(e) == e.src = 198
IsMaskCount(e) == e.src = 182
Reports == SelectSeq(stdout, IsReport)
MaskCounts == SelectSeq(stdout, IsMaskCount)
Report == Reports[1].val

\* The loop ended by exhaustion or by the cap, with no failed assertion
LoopOver == pc = "done" \/ (pc = "failed" /\ error = "ValueError")

\* The images of the batches given to the model, in processing order
RECURSIVE ImagesUpTo(_)
ImagesUpTo(k) == IF k = 0 THEN <<>> ELSE ImagesUpTo(k - 1) \o seen[k].imgs
AllImages == ImagesUpTo(Len(seen))

RECURSIVE Total(_, _)
Total(f, k) == IF k = 0 THEN 0 ELSE Total(f, k - 1) + f[k]

\* Exact fractions
RatEq(a, b) == a.num * b.den = b.num * a.den
RatAdd(a, b) == [num |-> a.num * b.den + b.num * a.den, den |-> a.den * b.den]
RECURSIVE BatchMeanSum(_)
BatchMeanSum(k) ==
    IF k = 0 THEN [num |-> 0, den |-> 1]
    ELSE RatAdd(BatchMeanSum(k - 1),
                [num |-> Total([j \in DOMAIN seen[k].imgs |-> seen[k].imgs[j].ssim],
                               Len(seen[k].imgs)),
                 den |-> Len(seen[k].imgs)])
MeanOfBatchMeans ==
    [num |-> BatchMeanSum(Len(seen)).num, den |-> BatchMeanSum(Len(seen)).den * Len(seen)]
FlatSsim ==
    [num |-> Total([k \in DOMAIN AllImages |-> AllImages[k].ssim], Len(AllImages)),
     den |-> Len(AllImages)]
FlatPsnr ==
    [num |-> Total([k \in DOMAIN AllImages |-> AllImages[k].psnr], Len(AllImages)),
     den |-> Len(AllImages)]
FlatNmse ==
    [num |-> Total([k \in DOMAIN AllImages |-> AllImages[k].nmse], Len(AllImages)),
     den |-> Len(AllImages)]
SameSizes == \A j, k \in DOMAIN seen : Len(seen[j].imgs) = Len(seen[k].imgs)

C2_PerImage ==
    /\ all_psnrs = [k \in DOMAIN AllImages |-> AllImages[k].psnr]
    /\ all_nmses = [k \in DOMAIN AllImages |-> AllImages[k].nmse]
    /\ Reports # <<>> =>
          /\ RatEq(Report["psnr"], FlatPsnr) /\ Report["psnr"].den = Len(AllImages)
          /\ RatEq(Report["nmse"], FlatNmse) /\ Report["nmse"].den = Len(AllImages)

\* A report over two batches of different sizes holding different images
C2_Witness ==
    /\ Reports # <<>>
    /\ Len(seen) = 2
    /\ ~SameSizes
    /\ \E j, k \in DOMAIN AllImages : AllImages[j] # AllImages[k]

\* --------------------------------------------------- masks of a run
\* The processed batches whose extra outputs carried "prob_masks"
MaskBatches == { k \in DOMAIN seen : seen[k].extra.has }
RECURSIVE MaskImages(_)
MaskImages(k) ==
    IF k = 0 THEN 0
    ELSE MaskImages(k - 1) + (IF seen[k].extra.has THEN Len(seen[k].imgs) ELSE 0)

\* The rows held by the collected tensors, in order
RECURSIVE RowsUpTo(_)
RowsUpTo(k) == IF k = 0 THEN <<>> ELSE RowsUpTo(k - 1) \o all_prob_masks[k]
CollectedRows == RowsUpTo(Len(all_prob_masks))
RowTotal(row) == Total(row, Len(row))
Binary(row) == \A l \in DOMAIN row : row[l] = 0 \/ row[l] = Denom

\* ------------------------------------------------------------------ C3
\* C3: every mask row collected into the entropy analyzer has passed the
\* budget check, so every row of the stacked mask array sums to the budget
\* within tolerance; a batch with a row that does not is never collected.
C3_EveryRowChecked ==
    \A n \in DOMAIN CollectedRows :
        IsClose(RowTotal(CollectedRows[n]), Denom * budget)

\* ------------------------------------------------------------------ C4
\* The run failed on batch k with the multiple-policies assertion, before
\* collecting a mask of that batch and before printing a report
FailedMultiple(k) ==
    /\ k = Len(seen)
    /\ pc = "failed"
    /\ error = "MultiplePolicies"
    /\ Reports = <<>>
    /\ Len(all_prob_masks) = Cardinality({j \in MaskBatches : j < k})

C5_ReportKeys ==
    Reports # <<>> =>
        DOMAIN Report =
            IF MaskBatches = {}
            THEN {"ssim", "psnr", "nmse"}
            ELSE {"ssim", "psnr", "nmse", "cond_ent_ind", "marg_ent_ind", "mi_ind"}

\* A six-key report of a run in which one batch carried a mask and one did not
C5_Witness ==
    /\ Reports # <<>>
    /\ MaskBatches # {}
    /\ MaskBatches # DOMAIN seen
    /\ Cardinality(DOMAIN Report) = 6

\* ------------------------------------------------------------------ C6
Min(a, b) == IF a < b THEN a ELSE b

\* The model was called on exactly the first m batches, none past them
FirstBatches(m) ==
    /\ \A k \in DOMAIN seen : k <= m
    /\ \A k \in DOMAIN all_ssims : k <= m
    /\ \A k \in DOMAIN all_prob_masks : k <= m
    /\ LoopOver => \A k \in 1 .. m : k \in DOMAIN seen

\* C6 as written: with N batches and cap c the model is called on exactly the
\* first min(c, N) batches, on all N when num_batches is None.
C6_MinCapN ==
    FirstBatches(IF num_batches = None THEN data_loader
                 ELSE Min(num_batches[1], data_loader))

\* C6 amended: with N batches and a cap c >= 0 the model is called on exactly
\* the first min(c, N) batches, in order, and on none after; with no cap
\* (None), or with a negative cap, which no batch index ever equals, all N
\* batches are processed. Nothing of a batch past that limit is accumulated.
C6_CapOrAll ==
    FirstBatches(IF num_batches = None \/ num_batches[1] < 0 THEN data_loader
                 ELSE Min(num_batches[1], data_loader))

\* A report printed after the cap stopped the loop before the data ran out
C6_Witness ==
    /\ pc = "done"
    /\ num_batches = <<1>>
    /\ data_loader = 2
    /\ Len(seen) = 1

\* ------------------------------------------------------------------ C7
\* C7: AdaptiveVarNetModule is tried first; VarNetModule is tried only after
\* the first attempt failed, at most once, and always when the first attempt
\* failed on a checkpoint that does not fit (RuntimeError); when the fallback
\* fails too, the failure propagates and no batch is evaluated.
C7_Fallback ==
    /\ Len(attempts) <= 2
    /\ attempts # <<>> => attempts[1].cls = "AdaptiveVarNetModule"
    /\ Len(attempts) = 2 =>
          attempts[2].cls = "VarNetModule" /\ attempts[1].outcome # "ok"
    /\ (attempts # <<>> /\ attempts[1].outcome = "RuntimeError") => Len(attempts) = 2
    /\ (Len(attempts) = 2 /\ attempts[2].outcome # "ok") =>
          /\ pc = "failed"
          /\ error = attempts[2].outcome
          /\ model = "none"
          /\ seen = <<>>
    /\ seen # <<>> => attempts[Len(attempts)].outcome = "ok"

\* Both attempts failed
C7_Witness ==
    /\ Len(attempts) = 2
    /\ attempts[1].outcome = "RuntimeError"
    /\ attempts[2].outcome = "RuntimeError"
    /\ pc = "failed"

\* ------------------------------------------------------------------ C8
IsZero(x) == ~x.nan /\ \A a \in DOMAIN x.terms : x.terms[a] = 0

\* C8: entropy() is exactly 0 at every element that is exactly 0 or 1; so
\* when every collected mask entry is 0 or 1, cond_ent_ind is exactly 0 and
\* mi_ind equals marg_ent_ind; and in every report with masks mi_ind is
\* marg_ent_ind minus cond_ent_ind.
C8_EntropyOverride ==
    /\ \A n \in DOMAIN CollectedRows :
          \A l \in DOMAIN CollectedRows[n] :
              (CollectedRows[n][l] = 0 \/ CollectedRows[n][l] = Denom) =>
                  entropy(<< <<<<CollectedRows[n][l], Denom>>>> >>)[1][1] = Zero
    /\ (Reports # <<>> /\ MaskBatches # {}) =>
          /\ ValEq(Add(Report["mi_ind"], Report["cond_ent_ind"]), Report["marg_ent_ind"])
          /\ (\A n \in DOMAIN CollectedRows : Binary(CollectedRows[n])) =>
                /\ IsZero(Report["cond_ent_ind"])
                /\ ValEq(Report["mi_ind"], Report["marg_ent_ind"])

\* A report over different binary masks: the marginal entropy is not zero
C8_Witness ==
    /\ Reports # <<>>
    /\ MaskBatches # {}
    /\ \A n \in DOMAIN CollectedRows : Binary(CollectedRows[n])
    /\ ~IsZero(Report["marg_ent_ind"])

\* ------------------------------------------------------------------ C9
\* C9 as written: the number N of stacked mask rows at finalization is the
\* number of processed batches that carried a mask.
C9_RowPerBatch ==
    \A n \in DOMAIN MaskCounts : MaskCounts[n].val[1] = Cardinality(MaskBatches)

\* C9 amended: the analyzer collects one mask tensor per processed batch that
\* carries a sampling-policy mask, with one row per image of the batch; at
\* finalization the number N of stacked rows is the total number of images in
\* those batches, so the marginal probability and the average conditional
\* entropy weight every image, not every batch, equally.
C9_RowPerImage ==
    /\ pc # "failed" => Len(all_prob_masks) = Cardinality(MaskBatches)
    /\ pc # "failed" => Len(CollectedRows) = MaskImages(Len(seen))
    /\ \A n \in DOMAIN MaskCounts : MaskCounts[n].val[1] = MaskImages(Len(seen))
    /\ (Reports # <<>> /\ MaskBatches # {}) =>
          /\ Len(MaskCounts) = 1
          /\ Report["cond_ent_ind"].den = MaskImages(Len(seen))

\* A report over a mask batch of more than one image
C9_Witness ==
    /\ Reports # <<>>
    /\ \E k \in MaskBatches : Len(seen[k].imgs) > 1

\* ----------------------------------------------------------------- C10
\* C10: every run whose loop ends normally, a run of zero batches included,
\* finalizes once, after the last batch, and prints exactly one report; no
\* report is printed before the loop ends.
C10_OneReport ==
    /\ LoopOver => Len(Reports) = 1
    /\ ~LoopOver => Reports = <<>>
====
